---- MODULE Spec2Model ----
(***************************************************************************)
(* grep-rust (src/main.rs): a literal substring search over files.         *)
(*                                                                         *)
(* A Rust String is a sequence of UTF-8 bytes.  Strings are modelled as    *)
(* sequences of bytes, each byte written as a one-element name: an ASCII   *)
(* byte by its character ("a", "-", "*"), the line feed as "LF", the       *)
(* carriage return as "CR", and the two bytes of U+00E9 as "C3", "A9".     *)
(* Offsets into strings are byte offsets, as in Rust, counted from 0.      *)
(***************************************************************************)
EXTENDS Integers, Sequences, FiniteSets, TLC

(***************************************************************************)
(* Bounds of the model.                                                    *)
(***************************************************************************)
MaxArgs == 3      \* arguments after the program name in SpecArgs
MaxPaths == 2     \* path arguments of a search in Spec

(***************************************************************************)
(* The state of a run.                                                     *)
(***************************************************************************)
VARIABLES
    args,       \* env::args()
    pc,         \* "main", "run", "parse_filenames", "files", "lines", "exit"
    config,     \* the Config that Config::new built
    pidx,       \* parse_filenames: position of the loop over filenames
    files,      \* parse_filenames: files; then the list run iterates over
    fidx,       \* run: position of the loop over files
    lines,      \* run: the lines of the file that was read
    lidx,       \* run: position of the loop over lines
    line_no,    \* run: line_no
    out,        \* standard output, the lines written so far
    errs,       \* standard error, the messages written so far
    exit_code   \* the exit status, once pc = "exit"

vars == << args, pc, config, pidx, files, fidx, lines, lidx, line_no,
           out, errs, exit_code >>

scan_vars == << files, fidx, lines, lidx, line_no >>

(***************************************************************************)
(* Strings.                                                                *)
(***************************************************************************)
\* the sequences over S of length 0..n
SeqsUpTo(S, n) == UNION { [1..k -> S] : k \in 0..n }

\* a UTF-8 continuation byte: an offset in front of one is no char boundary
IsContinuation(b) == b \in { "A9" }

\* str::is_char_boundary, which every slice s[i..j] asserts of i and j
IsCharBoundary(s, i) ==
    /\ i >= 0
    /\ i <= Len(s)
    /\ (i < Len(s) => ~IsContinuation(s[i + 1]))

\* haystack[i .. i + len(needle)] = needle
OccursAt(haystack, needle, i) ==
    /\ i + Len(needle) <= Len(haystack)
    /\ \A k \in 1..Len(needle) : haystack[i + k] = needle[k]

None == -1

\* str::find: the byte offset of the first occurrence, or None
StrFind(haystack, needle) ==
    LET hits == { i \in 0..Len(haystack) : OccursAt(haystack, needle, i) }
    IN  IF hits = {} THEN None
        ELSE CHOOSE i \in hits : \A j \in hits : i <= j

\* str::contains
StrContains(haystack, needle) == StrFind(haystack, needle) # None

\* char::to_lowercase on the bytes of the model's alphabet
LowerByte(b) ==
    IF b = "A" THEN "a"
    ELSE IF b = "B" THEN "b"
    ELSE b

\* str::to_lowercase
ToLowercase(s) == [i \in 1..Len(s) |-> LowerByte(s[i])]

\* s[i..j], defined when Rust's slice does not panic
SliceOk(s, i, j) == i <= j /\ IsCharBoundary(s, i) /\ IsCharBoundary(s, j)
Slice(s, i, j) == SubSeq(s, i + 1, j)

Digit(d) == <<"0", "1", "2", "3", "4", "5", "6", "7", "8", "9">>[d + 1]

\* i32::to_string of a positive number
RECURSIVE IntToString(_)
IntToString(n) ==
    IF n < 10 THEN << Digit(n) >>
    ELSE Append(IntToString(n \div 10), Digit(n % 10))

\* str::lines: split at LF, drop one CR in front of the LF, no last empty line
RECURSIVE LinesFrom(_, _, _)
LinesFrom(s, i, cur) ==
    IF i > Len(s) THEN (IF cur = <<>> THEN <<>> ELSE << cur >>)
    ELSE IF s[i] = "LF"
         THEN LET line == IF cur # <<>> /\ cur[Len(cur)] = "CR"
                          THEN SubSeq(cur, 1, Len(cur) - 1) ELSE cur
              IN  << line >> \o LinesFrom(s, i + 1, <<>>)
         ELSE LinesFrom(s, i + 1, Append(cur, s[i]))

StrLines(s) == LinesFrom(s, 1, <<>>)

(***************************************************************************)
(* Command-line tokens.                                                    *)
(***************************************************************************)
Prog == <<"g", "r", "e", "p">>
FlagI == <<"-", "i">>
FlagN == <<"-", "n">>
FlagV == <<"-", "v">>
FlagR == <<"-", "r">>
FlagF == <<"-", "f">>
FlagC == <<"-", "c">>
FlagH == <<"-", "h">>
FlagHelp == <<"-", "-", "h", "e", "l", "p">>

OptionFlagSeq == << FlagI, FlagN, FlagV, FlagR, FlagF, FlagC >>
OptionFlags == { OptionFlagSeq[i] : i \in 1..Len(OptionFlagSeq) }
HelpFlags == { FlagH, FlagHelp }

(***************************************************************************)
(* The file system the program runs against.                               *)
(*   f1    a readable file                                                 *)
(*   f2    a file that can be statted but not read as text                 *)
(*   d     a directory holding the file d/g and the empty directory d/s    *)
(*   g*    a file whose own name holds a wildcard character                *)
(*   g1    a readable file                                                 *)
(*   f*, x names of nothing                                                *)
(***************************************************************************)
PathF1 == <<"f", "1">>
PathF2 == <<"f", "2">>
PathD == <<"d">>
PathDG == <<"d", "/", "g">>
PathDS == <<"d", "/", "s">>
PathGStar == <<"g", "*">>
PathG1 == <<"g", "1">>
PathFStar == <<"f", "*">>
PathX == <<"x">>

\* the entries of the working directory, in the sorted order glob reports them
CwdEntries == << PathD, PathF1, PathF2, PathGStar, PathG1 >>
\* the entries below d, in the order the walk reports them
DirEntries == << PathD, PathDG, PathDS >>
Directories == { PathD, PathDS }
RegularFiles == { PathF1, PathF2, PathDG, PathGStar, PathG1 }
UnreadableFiles == { PathF2 }

FileContents(p) ==
    IF p = PathF1 THEN <<"b", "a", "b", "LF", "LF", "A", "C3", "A9">>
    ELSE IF p = PathDG THEN <<"A", "b", "LF">>
    ELSE IF p = PathGStar THEN <<"a", "CR", "LF", "B", "LF">>
    ELSE IF p = PathG1 THEN <<"LF", "LF", "LF", "LF", "LF", "LF", "LF", "LF", "LF",
                              "b", "a", "LF">>
    ELSE <<>>

\* fs::metadata(p): "err", "dir" or "file"
FsMetadata(p) ==
    IF p \in Directories THEN "dir"
    ELSE IF p \in RegularFiles THEN "file"
    ELSE "err"

\* WalkDir::new(p) with the entries that are files kept (lines 94-99)
WalkFiles(p) ==
    IF p = PathD THEN SelectSeq(DirEntries, LAMBDA e : e \in RegularFiles)
    ELSE <<>>

\* glob matching of a name against a pattern whose only wildcard is '*',
\* which matches any run of bytes but the separator
RECURSIVE GlobMatch(_, _, _, _)
GlobMatch(pat, i, name, j) ==
    IF i > Len(pat) THEN j > Len(name)
    ELSE IF pat[i] = "*"
         THEN \/ GlobMatch(pat, i + 1, name, j)
              \/ /\ j <= Len(name)
                 /\ name[j] # "/"
                 /\ GlobMatch(pat, i, name, j + 1)
         ELSE /\ j <= Len(name)
              /\ name[j] = pat[i]
              /\ GlobMatch(pat, i + 1, name, j + 1)

\* glob::glob(p) fails on a run of three wildcards
GlobPatternError(p) == StrContains(p, <<"*", "*", "*">>)

\* the paths glob::glob(p) yields; every directory of the model can be read
\* and every name is UTF-8, so that path? and to_str().unwrap() succeed
GlobPaths(p) == SelectSeq(CwdEntries, LAMBDA e : GlobMatch(p, 1, e, 1))

\* a variant that reads a file it cannot read as an empty one
ReadToStringOrEmpty(p) ==
    [ ok |-> TRUE,
      contents |-> IF p \in RegularFiles \ UnreadableFiles THEN FileContents(p) ELSE <<>> ]

\* fs::read_to_string(p): the contents, or the error
ReadToString(p) ==
    IF p \in RegularFiles \ UnreadableFiles
    THEN [ ok |-> TRUE, contents |-> FileContents(p) ]
    ELSE [ ok |-> FALSE, contents |-> <<>> ]

(***************************************************************************)
(* Config::new (lines 35-85).                                              *)
(***************************************************************************)
HasArg(a, flag) == \E i \in 1..Len(a) : a[i] = flag

\* the arguments that match no flag arm, in order (line 58): the loop of
\* line 49 runs over every argument, the program name included
Queries(a) == SelectSeq(a, LAMBDA t : t \notin OptionFlags \cup HelpFlags)

NoConfig ==
    [ print_usage |-> FALSE, search_string |-> <<>>, filenames |-> <<>>,
      is_case_insensitive |-> FALSE, print_line_no |-> FALSE,
      invert_match |-> FALSE, recursive_search |-> FALSE,
      print_filenames |-> FALSE, coloured_output |-> FALSE ]

\* a variant that knows the help flag in front of the other arguments only
ConfigNewHelpFirst(a) ==
    IF Len(a) < 2 THEN [ ok |-> FALSE, config |-> NoConfig ]
    ELSE
      LET queries == Queries(a)
          print_usage == a[2] \in HelpFlags
      IN  IF ~print_usage /\ Len(queries) < 3
          THEN [ ok |-> FALSE, config |-> NoConfig ]
          ELSE [ ok |-> TRUE,
                 config |->
                   [ print_usage |-> print_usage,
                     search_string |-> IF print_usage THEN <<>> ELSE queries[2],
                     filenames |-> IF print_usage THEN <<>>
                                   ELSE SubSeq(queries, 3, Len(queries)),
                     is_case_insensitive |-> HasArg(a, FlagI),
                     print_line_no |-> HasArg(a, FlagN),
                     invert_match |-> HasArg(a, FlagV),
                     recursive_search |-> HasArg(a, FlagR),
                     print_filenames |-> HasArg(a, FlagF),
                     coloured_output |-> HasArg(a, FlagC) ] ]

\* Config::new(args): [ok |-> FALSE] for Err, [ok |-> TRUE, config |-> _] for Ok
ConfigNew(a) ==
    IF Len(a) < 2 THEN [ ok |-> FALSE, config |-> NoConfig ]
    ELSE
      LET queries == Queries(a)
          print_usage == HasArg(a, FlagH) \/ HasArg(a, FlagHelp)
      IN  IF ~print_usage /\ Len(queries) < 3
          THEN [ ok |-> FALSE, config |-> NoConfig ]
          ELSE [ ok |-> TRUE,
                 config |->
                   [ print_usage |-> print_usage,
                     search_string |-> IF print_usage THEN <<>> ELSE queries[2],
                     filenames |-> IF print_usage THEN <<>>
                                   ELSE SubSeq(queries, 3, Len(queries)),
                     is_case_insensitive |-> HasArg(a, FlagI),
                     print_line_no |-> HasArg(a, FlagN),
                     invert_match |-> HasArg(a, FlagV),
                     recursive_search |-> HasArg(a, FlagR),
                     print_filenames |-> HasArg(a, FlagF),
                     coloured_output |-> HasArg(a, FlagC) ] ]

(***************************************************************************)
(* parse_filenames, one pass of its loop (lines 90-116).                   *)
(***************************************************************************)
\* a variant without the metadata call's error: what cannot be statted is
\* taken as a plain file
PathOutcomeWithoutStat(filename, recursive_search) ==
    LET metadata == FsMetadata(filename)
    IN  IF metadata = "dir"
        THEN IF recursive_search
             THEN [ branch |-> "walk", ok |-> TRUE, pushed |-> WalkFiles(filename) ]
             ELSE [ branch |-> "dir_skipped", ok |-> TRUE, pushed |-> <<>> ]
        ELSE IF StrContains(filename, <<"*">>)
        THEN [ branch |-> "glob", ok |-> TRUE, pushed |-> GlobPaths(filename) ]
        ELSE [ branch |-> "literal", ok |-> TRUE, pushed |-> << filename >> ]

\* a variant that returns an error for a directory without -r
PathOutcomeDirFatal(filename, recursive_search) ==
    LET metadata == FsMetadata(filename)
    IN  IF metadata = "err"
        THEN [ branch |-> "stat_err", ok |-> FALSE, pushed |-> <<>> ]
        ELSE IF metadata = "dir"
        THEN IF recursive_search
             THEN [ branch |-> "walk", ok |-> TRUE, pushed |-> WalkFiles(filename) ]
             ELSE [ branch |-> "stat_err", ok |-> FALSE, pushed |-> <<>> ]
        ELSE IF StrContains(filename, <<"*">>)
        THEN [ branch |-> "glob", ok |-> TRUE, pushed |-> GlobPaths(filename) ]
        ELSE [ branch |-> "literal", ok |-> TRUE, pushed |-> << filename >> ]

\* a variant that opens a plain file before it pushes it
PathOutcomeCheckedLiteral(filename, recursive_search) ==
    LET metadata == FsMetadata(filename)
    IN  IF metadata = "err"
        THEN [ branch |-> "stat_err", ok |-> FALSE, pushed |-> <<>> ]
        ELSE IF metadata = "dir"
        THEN IF recursive_search
             THEN [ branch |-> "walk", ok |-> TRUE, pushed |-> WalkFiles(filename) ]
             ELSE [ branch |-> "dir_skipped", ok |-> TRUE, pushed |-> <<>> ]
        ELSE IF StrContains(filename, <<"*">>)
        THEN [ branch |-> "glob", ok |-> TRUE, pushed |-> GlobPaths(filename) ]
        ELSE IF ReadToString(filename).ok
        THEN [ branch |-> "literal", ok |-> TRUE, pushed |-> << filename >> ]
        ELSE [ branch |-> "stat_err", ok |-> FALSE, pushed |-> <<>> ]

\* what the loop body does with one filename: the branch taken, whether the
\* function goes on (ok) or returns the error, and the files it pushes
PathOutcome(filename, recursive_search) ==
    LET metadata == FsMetadata(filename)
    IN  IF metadata = "err"
        THEN [ branch |-> "stat_err", ok |-> FALSE, pushed |-> <<>> ]
        ELSE IF metadata = "dir"
        THEN IF recursive_search
             THEN [ branch |-> "walk", ok |-> TRUE, pushed |-> WalkFiles(filename) ]
             ELSE [ branch |-> "dir_skipped", ok |-> TRUE, pushed |-> <<>> ]
        ELSE IF StrContains(filename, <<"*">>)
        THEN IF GlobPatternError(filename)
             THEN [ branch |-> "glob", ok |-> FALSE, pushed |-> <<>> ]
             ELSE [ branch |-> "glob", ok |-> TRUE, pushed |-> GlobPaths(filename) ]
        ELSE [ branch |-> "literal", ok |-> TRUE, pushed |-> << filename >> ]

(***************************************************************************)
(* run, the body of the loop over the lines (lines 135-171).               *)
(***************************************************************************)
\* a variant that forgets lines 143-145
MatchedWithoutInvert(cfg, line) ==
    IF cfg.is_case_insensitive
    THEN StrContains(ToLowercase(line), ToLowercase(cfg.search_string))
    ELSE StrContains(line, cfg.search_string)

\* lines 136-145
Matched(cfg, line) ==
    LET matched == IF cfg.is_case_insensitive
                   THEN StrContains(ToLowercase(line), ToLowercase(cfg.search_string))
                   ELSE StrContains(line, cfg.search_string)
    IN  IF cfg.invert_match THEN ~matched ELSE matched

\* a variant that numbers the lines printed instead of the lines read
OutputPrefixCountingMatches(cfg, file, n) ==
    (IF cfg.print_filenames THEN file \o <<":", " ">> ELSE <<>>)
    \o (IF cfg.print_line_no THEN IntToString(Len(out) + 1) \o <<":", " ">> ELSE <<>>)

\* lines 149-157
OutputPrefix(cfg, file, n) ==
    (IF cfg.print_filenames THEN file \o <<":", " ">> ELSE <<>>)
    \o (IF cfg.print_line_no THEN IntToString(n) \o <<":", " ">> ELSE <<>>)

\* a variant of line 158 that forgets the case-insensitive flag
UseHighlightWithCase(cfg) == cfg.coloured_output /\ ~cfg.invert_match

\* a variant of line 158 that forgets the invert flag
UseHighlightWithInvert(cfg) == cfg.coloured_output /\ ~cfg.is_case_insensitive

\* line 158
UseHighlight(cfg) ==
    cfg.coloured_output /\ ~cfg.invert_match /\ ~cfg.is_case_insensitive

\* colored's red(): the text between the escape sequences of red and reset,
\* as written when colors are enabled for the output stream
Red(s) == <<"ESC[31m">> \o s \o <<"ESC[0m">>

\* line 160 and the slices of lines 161-163: do unwrap and the slices succeed
HighlightOk(line, pat) ==
    LET index == StrFind(line, pat)
    IN  /\ index # None
        /\ SliceOk(line, 0, index)
        /\ SliceOk(line, index, index + Len(pat))
        /\ SliceOk(line, index + Len(pat), Len(line))

\* what lines 161-163 print, as one line
HighlightedLine(output, line, pat) ==
    LET index == StrFind(line, pat)
    IN  output \o Slice(line, 0, index)
        \o Red(Slice(line, index, index + Len(pat)))
        \o Slice(line, index + Len(pat), Len(line))

\* lines 166-167
PlainLine(output, line) == output \o line

USAGE_INFO == <<"USAGE_INFO">>

ExitOk == 0
ExitError == 1
ExitPanic == 101

Start(a) ==
    /\ args = a
    /\ pc = "main"
    /\ config = NoConfig
    /\ pidx = 1
    /\ files = <<>>
    /\ fidx = 1
    /\ lines = <<>>
    /\ lidx = 1
    /\ line_no = 1
    /\ out = <<>>
    /\ errs = <<>>
    /\ exit_code = ExitOk

SearchPaths == { PathF1, PathF2, PathD, PathGStar, PathFStar, PathX }

\* the patterns searched for: empty, of one byte, of two bytes, of two
\* characters, in either case
SearchPatterns ==
    { <<>>, <<"a">>, <<"A">>, <<"C3", "A9">>, <<"a", "b">> }

\* a search: any set of option flags, a pattern, one or more paths
SearchArgs ==
    { << Prog >> \o SelectSeq(OptionFlagSeq, LAMBDA f : f \in flags)
               \o << pattern >> \o paths :
        flags \in SUBSET OptionFlags,
        pattern \in SearchPatterns,
        paths \in SeqsUpTo(SearchPaths, MaxPaths) \ { <<>> } }

Init ==
    \E a \in SearchArgs \cup { << Prog >>, << Prog, FlagH >> } : Start(a)

ArgTokens ==
    OptionFlags \cup HelpFlags
    \cup { <<"a">>, PathF1, PathF2, PathD, PathGStar }

\* any arguments, flags at any position
InitArgs ==
    \E rest \in SeqsUpTo(ArgTokens, MaxArgs) : Start(<< Prog >> \o rest)

(***************************************************************************)
(* main (lines 178-186).                                                   *)
(***************************************************************************)
Exit(code) ==
    /\ pc' = "exit"
    /\ exit_code' = code

\* line 180, Config::new returned Ok
MainConfigOk ==
    /\ pc = "main"
    /\ ConfigNew(args).ok
    /\ config' = ConfigNew(args).config
    /\ pc' = "run"
    /\ UNCHANGED << args, pidx, scan_vars, out, errs, exit_code >>

\* line 180, expect panics on Err
MainConfigErr ==
    /\ pc = "main"
    /\ ~ConfigNew(args).ok
    /\ errs' = Append(errs, <<"panic", "INVALID_ARGS_INFO">>)
    /\ Exit(ExitPanic)
    /\ UNCHANGED << args, config, pidx, scan_vars, out >>

\* lines 182-185, run returned Err
Fatal ==
    /\ errs' = Append(errs, <<"Error">>)
    /\ Exit(ExitError)

(***************************************************************************)
(* run (lines 120-176) and parse_filenames (lines 88-118).                 *)
(***************************************************************************)
\* lines 121-124
RunUsage ==
    /\ pc = "run"
    /\ config.print_usage
    /\ out' = Append(out, USAGE_INFO)
    /\ Exit(ExitOk)
    /\ UNCHANGED << args, config, pidx, scan_vars, errs >>

\* line 127, the call, and line 89
RunSearch ==
    /\ pc = "run"
    /\ ~config.print_usage
    /\ pc' = "parse_filenames"
    /\ pidx' = 1
    /\ files' = <<>>
    /\ UNCHANGED << args, config, fidx, lines, lidx, line_no, out, errs, exit_code >>

ParsingPath ==
    /\ pc = "parse_filenames"
    /\ pidx <= Len(config.filenames)

Outcome == PathOutcome(config.filenames[pidx], config.recursive_search)

\* the loop goes on to the next filename with the files pushed
ParseNext(pushed) ==
    /\ files' = files \o pushed
    /\ pidx' = pidx + 1
    /\ UNCHANGED << args, pc, config, fidx, lines, lidx, line_no, out, exit_code >>

\* the error is returned through line 127 to main
ParseFail ==
    /\ Fatal
    /\ UNCHANGED << args, config, pidx, scan_vars, out >>

\* line 91, metadata fails
ParseStatErr ==
    /\ ParsingPath
    /\ Outcome.branch = "stat_err"
    /\ ParseFail

\* lines 93-100
ParseWalk ==
    /\ ParsingPath
    /\ Outcome.branch = "walk"
    /\ ParseNext(Outcome.pushed)
    /\ UNCHANGED errs

\* lines 101-103
ParseDirSkipped ==
    /\ ParsingPath
    /\ Outcome.branch = "dir_skipped"
    /\ errs' = Append(errs, <<"is a directory", config.filenames[pidx]>>)
    /\ ParseNext(Outcome.pushed)

\* lines 106-110
ParseGlob ==
    /\ ParsingPath
    /\ Outcome.branch = "glob"
    /\ IF Outcome.ok
       THEN ParseNext(Outcome.pushed) /\ UNCHANGED errs
       ELSE ParseFail

\* lines 111-114
ParseLiteral ==
    /\ ParsingPath
    /\ Outcome.branch = "literal"
    /\ ParseNext(Outcome.pushed)
    /\ UNCHANGED errs

\* line 117, and line 130 entered
ParseDone ==
    /\ pc = "parse_filenames"
    /\ pidx > Len(config.filenames)
    /\ pc' = "files"
    /\ fidx' = 1
    /\ UNCHANGED << args, config, pidx, files, lines, lidx, line_no, out, errs, exit_code >>

\* line 131, read_to_string fails
ReadErr ==
    /\ pc = "files"
    /\ fidx <= Len(files)
    /\ ~ReadToString(files[fidx]).ok
    /\ Fatal
    /\ UNCHANGED << args, config, pidx, scan_vars, out >>

\* lines 131-133
ReadOk ==
    /\ pc = "files"
    /\ fidx <= Len(files)
    /\ ReadToString(files[fidx]).ok
    /\ lines' = StrLines(ReadToString(files[fidx]).contents)
    /\ lidx' = 1
    /\ line_no' = 1
    /\ pc' = "lines"
    /\ UNCHANGED << args, config, pidx, files, fidx, out, errs, exit_code >>

AtLine ==
    /\ pc = "lines"
    /\ lidx <= Len(lines)

\* line 171 and the next pass of the loop of line 135; line_no is an i32,
\* and the files of the model are far shorter than 2^31 lines
NextLine ==
    /\ line_no' = line_no + 1
    /\ lidx' = lidx + 1
    /\ UNCHANGED << args, pc, config, pidx, files, fidx, lines, errs, exit_code >>

\* line 147, not matched
LineSkipped ==
    /\ AtLine
    /\ ~Matched(config, lines[lidx])
    /\ UNCHANGED out
    /\ NextLine

\* lines 147-157 and 165-168
LinePlain ==
    /\ AtLine
    /\ Matched(config, lines[lidx])
    /\ ~UseHighlight(config)
    /\ out' = Append(out, PlainLine(OutputPrefix(config, files[fidx], line_no),
                                    lines[lidx]))
    /\ NextLine

\* lines 147-164; unwrap and the slices panic when they fail
LineHighlighted ==
    /\ AtLine
    /\ Matched(config, lines[lidx])
    /\ UseHighlight(config)
    /\ IF HighlightOk(lines[lidx], config.search_string)
       THEN /\ out' = Append(out,
                        HighlightedLine(OutputPrefix(config, files[fidx], line_no),
                                        lines[lidx], config.search_string))
            /\ NextLine
       ELSE /\ errs' = Append(errs, <<"panic", "highlight">>)
            /\ Exit(ExitPanic)
            /\ UNCHANGED << args, config, pidx, scan_vars, out >>

\* the loop of line 135 ends, the loop of line 130 goes on
FileDone ==
    /\ pc = "lines"
    /\ lidx > Len(lines)
    /\ fidx' = fidx + 1
    /\ pc' = "files"
    /\ UNCHANGED << args, config, pidx, files, lines, lidx, line_no, out, errs, exit_code >>

\* line 175, and main returns
RunOk ==
    /\ pc = "files"
    /\ fidx > Len(files)
    /\ Exit(ExitOk)
    /\ UNCHANGED << args, config, pidx, scan_vars, out, errs >>

Next ==
    \/ MainConfigOk
    \/ MainConfigErr
    \/ RunUsage
    \/ RunSearch
    \/ ParseStatErr
    \/ ParseWalk
    \/ ParseDirSkipped
    \/ ParseGlob
    \/ ParseLiteral
    \/ ParseDone
    \/ ReadErr
    \/ ReadOk
    \/ LineSkipped
    \/ LinePlain
    \/ LineHighlighted
    \/ FileDone
    \/ RunOk

Spec == Init /\ [][Next]_vars

SpecArgs == InitArgs /\ [][Next]_vars

TypeOK ==
    /\ pc \in { "main", "run", "parse_filenames", "files", "lines", "exit" }
    /\ exit_code \in { ExitOk, ExitError, ExitPanic }
    /\ pidx \in 1..(Len(config.filenames) + 1)
    /\ fidx \in 1..(Len(files) + 1)
    /\ lidx \in 1..(Len(lines) + 1)

(***************************************************************************)
(* The claims.  Their vocabulary is defined here, apart from the model.    *)
(***************************************************************************)
\* needle occurs in haystack at byte offset i
Occurrence(haystack, needle, i) ==
    /\ 0 <= i
    /\ i + Len(needle) <= Len(haystack)
    /\ SubSeq(haystack, i + 1, i + Len(needle)) = needle

Contains(haystack, needle) ==
    \E i \in 0..Len(haystack) : Occurrence(haystack, needle, i)

FirstOccurrence(haystack, needle, i) ==
    /\ Occurrence(haystack, needle, i)
    /\ \A j \in 0..(i - 1) : ~Occurrence(haystack, needle, j)

Lowercase(s) ==
    [i \in 1..Len(s) |-> IF s[i] = "A" THEN "a" ELSE IF s[i] = "B" THEN "b" ELSE s[i]]

RawMatch(line, pattern, caseInsensitive) ==
    IF caseInsensitive
    THEN Contains(Lowercase(line), Lowercase(pattern))
    ELSE Contains(line, pattern)

CurrentLine == lines[lidx]
CurrentFile == files[fidx]
CurrentRawMatch ==
    RawMatch(CurrentLine, config.search_string, config.is_case_insensitive)

\* C1: run emits exactly one output line for a scanned line iff rawMatch XOR
\* invert, and nothing otherwise, rawMatch being containment of the pattern,
\* of both lower-cased when case-insensitive is set; so flipping the invert
\* flag alone flips the decision for every line.
C1_EmitIffRawMatchXorInvert ==
    [][ AtLine =>
          /\ IF CurrentRawMatch # config.invert_match
             THEN Len(out') = Len(out) + 1 /\ SubSeq(out', 1, Len(out)) = out
             ELSE out' = out
          /\ Matched([config EXCEPT !.invert_match = TRUE], CurrentLine)
               # Matched([config EXCEPT !.invert_match = FALSE], CurrentLine)
      ]_vars

\* an inverted, case-insensitive search that dropped a line that holds the
\* pattern and printed the next one, which does not
C1_Witness ==
    /\ pc = "lines"
    /\ config.invert_match
    /\ config.is_case_insensitive
    /\ config.search_string = <<"A">>
    /\ CurrentFile = PathF1
    /\ lidx = 3
    /\ Len(out) = 1

\* C3: the body of a line is rendered highlighted (the text before the first
\* occurrence of the pattern unchanged, the occurrence emphasized, the text
\* after it unchanged) iff colorOutput, not invert, not caseInsensitive and
\* rawMatch; every other emitted line carries the line text unchanged.
C3_HighlightIffColorPlainMatch ==
    [][ AtLine =>
          LET prefix == OutputPrefix(config, CurrentFile, line_no)
              pattern == config.search_string
          IN  IF /\ config.coloured_output
                 /\ ~config.invert_match
                 /\ ~config.is_case_insensitive
                 /\ CurrentRawMatch
              THEN \E i \in 0..Len(CurrentLine) :
                     /\ FirstOccurrence(CurrentLine, pattern, i)
                     /\ out' = Append(out,
                                 prefix \o SubSeq(CurrentLine, 1, i)
                                 \o <<"ESC[31m">> \o pattern \o <<"ESC[0m">>
                                 \o SubSeq(CurrentLine, i + Len(pattern) + 1,
                                           Len(CurrentLine)))
              ELSE out' # out => out' = Append(out, prefix \o CurrentLine)
      ]_vars

\* a colored search printed a line with the occurrence, which is neither at
\* the start nor at the end of the line, emphasized
C3_Witness ==
    /\ pc = "lines"
    /\ config.coloured_output
    /\ config.search_string = <<"a">>
    /\ lidx = 2
    /\ out = << <<"b", "ESC[31m", "a", "ESC[0m", "b">> >>

\* C10: the highlighted branch never fails: when it is entered the pattern
\* occurs in the line, so the lookup of the first occurrence is defined, index
\* and index + length(pattern) lie within the line (index = 0 for an empty
\* pattern), and prefix, span and suffix make up the line.
C10_HighlightNeverFails ==
    /\ ~(pc = "exit" /\ <<"panic", "highlight">> \in { errs[k] : k \in 1..Len(errs) })
    /\ (AtLine /\ Matched(config, CurrentLine) /\ UseHighlight(config)) =>
         LET pattern == config.search_string
             index == StrFind(CurrentLine, pattern)
         IN  /\ index # None
             /\ Contains(CurrentLine, pattern)
             /\ 0 <= index
             /\ index + Len(pattern) <= Len(CurrentLine)
             /\ IsCharBoundary(CurrentLine, index)
             /\ IsCharBoundary(CurrentLine, index + Len(pattern))
             /\ (pattern = <<>> => index = 0)
             /\ SubSeq(CurrentLine, 1, index)
                  \o SubSeq(CurrentLine, index + 1, index + Len(pattern))
                  \o SubSeq(CurrentLine, index + Len(pattern) + 1, Len(CurrentLine))
                = CurrentLine

\* the highlighted branch is about to run with an empty pattern on a line
\* that is not empty
C10_Witness ==
    /\ AtLine
    /\ Matched(config, CurrentLine)
    /\ UseHighlight(config)
    /\ config.search_string = <<>>
    /\ CurrentLine # <<>>

DigitBytes == { "0", "1", "2", "3", "4", "5", "6", "7", "8", "9" }

DigitValue(b) == CHOOSE v \in 0..9 : Digit(v) = b

RECURSIVE NumeralValue(_)
NumeralValue(ds) ==
    IF ds = <<>> THEN 0
    ELSE 10 * NumeralValue(SubSeq(ds, 1, Len(ds) - 1)) + DigitValue(ds[Len(ds)])

\* ds is the decimal notation of n
IsNumeral(ds, n) ==
    /\ Len(ds) >= 1
    /\ \A i \in 1..Len(ds) : ds[i] \in DigitBytes
    /\ (Len(ds) > 1 => ds[1] # "0")
    /\ NumeralValue(ds) = n

\* the renderings of a line body: the text, or the text with one occurrence
\* of the pattern between the marks of emphasis
Bodies(line, pattern) ==
    { line } \cup
    { SubSeq(line, 1, i) \o <<"ESC[31m">> \o pattern \o <<"ESC[0m">>
        \o SubSeq(line, i + Len(pattern) + 1, Len(line)) :
        i \in { j \in 0..Len(line) : Occurrence(line, pattern, j) } }

\* C2: an emitted line is '<file path>: ' (iff showFilenames), then '<n>: '
\* (iff showLineNumbers), then the body, n being the 1-based position of the
\* line in its file: the counter is 1 at the first line of each file, grows by
\* 1 with every line read, matched or not, and never exceeds the line count.
C2_OutputLineFormat ==
    [][ /\ (pc' = "lines" /\ pc # "lines") => (line_no' = 1 /\ lidx' = 1)
        /\ AtLine =>
             /\ lines = StrLines(FileContents(CurrentFile))
             /\ line_no = lidx
             /\ line_no <= Len(lines)
             /\ line_no' = line_no + 1
             /\ out' # out =>
                  LET file_part == IF config.print_filenames
                                   THEN CurrentFile \o <<":", " ">> ELSE <<>>
                      printed == out'[Len(out')]
                      rest == SubSeq(printed, Len(file_part) + 1, Len(printed))
                  IN  /\ out' = Append(out, printed)
                      /\ SubSeq(printed, 1, Len(file_part)) = file_part
                      /\ IF config.print_line_no
                         THEN \E k \in 1..Len(rest) :
                                /\ IsNumeral(SubSeq(rest, 1, k), lidx)
                                /\ SubSeq(rest, k + 1, k + 2) = <<":", " ">>
                                /\ SubSeq(rest, k + 3, Len(rest))
                                     \in Bodies(CurrentLine, config.search_string)
                         ELSE rest \in Bodies(CurrentLine, config.search_string)
      ]_vars

\* the second of two files, whose first line did not match, has its second
\* line printed with the file name and the number 2 in front
C2_Witness ==
    /\ pc = "lines"
    /\ fidx = 2
    /\ lidx = 3
    /\ Len(out) >= 1
    /\ out[Len(out)] = <<"g", "*", ":", " ", "2", ":", " ", "B">>
    /\ \A k \in 1..Len(out) : out[k][1] = "g"

\* what the file system holds, in the words of the claims
CannotStat(p) == p \notin Directories \cup RegularFiles
IsDirectory(p) == p \in Directories
HasWildcard(p) == \E i \in 1..Len(p) : p[i] = "*"
CannotRead(p) == p \notin RegularFiles \/ p \in UnreadableFiles

\* a search is under way or over: the arguments made a Config without help
Searching ==
    /\ pc \notin { "main", "run" }
    /\ ~config.print_usage
    /\ config.filenames # <<>>

\* the resolver returned an error at the path it was at
ResolverFailed == Searching /\ pc = "exit" /\ pidx <= Len(config.filenames)

\* the resolver returned its list
Resolved == Searching /\ pidx > Len(config.filenames)

\* the files one supplied path stands for
FilesOfPath(p) ==
    IF IsDirectory(p)
    THEN (IF config.recursive_search THEN WalkFiles(p) ELSE <<>>)
    ELSE IF HasWildcard(p) THEN GlobPaths(p)
    ELSE << p >>

\* the files of the supplied paths 1..n, in the order of the paths
RECURSIVE FilesOfPaths(_)
FilesOfPaths(n) ==
    IF n = 0 THEN <<>>
    ELSE FilesOfPaths(n - 1) \o FilesOfPath(config.filenames[n])

\* the text a file would give if it could be read
ContentsIfReadable(p) ==
    IF p \in UnreadableFiles THEN <<"a", "LF">> ELSE FileContents(p)

\* the output line of line n of a file, as sections 4.2.4 and 4.2.5 define it
Rendered(file, n, line) ==
    LET pattern == config.search_string
        highlighted == /\ config.coloured_output
                       /\ ~config.invert_match
                       /\ ~config.is_case_insensitive
        i == CHOOSE j \in 0..Len(line) : FirstOccurrence(line, pattern, j)
    IN  (IF config.print_filenames THEN file \o <<":", " ">> ELSE <<>>)
        \o (IF config.print_line_no THEN IntToString(n) \o <<":", " ">> ELSE <<>>)
        \o (IF highlighted
            THEN SubSeq(line, 1, i) \o <<"ESC[31m">> \o pattern \o <<"ESC[0m">>
                 \o SubSeq(line, i + Len(pattern) + 1, Len(line))
            ELSE line)

\* what the scan of the first n of the lines ls of a file prints
RECURSIVE LinesOutput(_, _, _)
LinesOutput(file, ls, n) ==
    IF n = 0 THEN <<>>
    ELSE LET emit == RawMatch(ls[n], config.search_string, config.is_case_insensitive)
                       # config.invert_match
         IN  LinesOutput(file, ls, n - 1)
             \o (IF emit THEN << Rendered(file, n, ls[n]) >> ELSE <<>>)

\* what the scan of a whole file prints
WholeFileOutput(file) ==
    LET ls == StrLines(ContentsIfReadable(file))
    IN  LinesOutput(file, ls, Len(ls))

\* what the scan of the resolved files 1..k prints when every file is read
RECURSIVE ErrorFreeOutput(_)
ErrorFreeOutput(k) ==
    IF k = 0 THEN <<>>
    ELSE ErrorFreeOutput(k - 1) \o WholeFileOutput(files[k])

IsPrefix(s, t) == Len(s) <= Len(t) /\ SubSeq(t, 1, Len(s)) = s

\* C4: path resolution of all supplied paths completes before any file is
\* read or any line is printed: if a path at any position cannot be statted
\* the run fails with a non-zero exit and nothing on standard output;
\* otherwise the files are read one at a time in the order the resolver gave,
\* which keeps the order of the supplied paths.
C4_ResolutionBeforeScanning ==
    /\ (Searching /\ (pc \in { "files", "lines" } \/ out # <<>>)) =>
         /\ pidx = Len(config.filenames) + 1
         /\ \A i \in 1..Len(config.filenames) : ~CannotStat(config.filenames[i])
    /\ (Searching /\ pc = "files") =>
         /\ files = FilesOfPaths(Len(config.filenames))
         /\ out = ErrorFreeOutput(fidx - 1)
    /\ (Searching /\ pc = "lines" /\ lidx > Len(lines)) =>
         out = ErrorFreeOutput(fidx)
    /\ (Searching /\ \E i \in 1..Len(config.filenames) : CannotStat(config.filenames[i])) =>
         /\ out = <<>>
         /\ pc \in { "parse_filenames", "exit" }
         /\ pc = "exit" => exit_code # ExitOk

\* a run given a readable file and then a path that cannot be statted has
\* ended, with an error
C4_Witness ==
    /\ pc = "exit"
    /\ Searching
    /\ config.filenames = << PathF1, PathX >>
    /\ config.search_string = <<>>
    /\ exit_code = ExitError

FirstUnreadable ==
    CHOOSE k \in 1..Len(files) :
        /\ CannotRead(files[k])
        /\ \A j \in 1..(k - 1) : ~CannotRead(files[j])

\* C5: when reading a resolved file fails the run aborts at once with a
\* non-zero exit: no line of that file or of a later file is emitted, and the
\* lines emitted for the files before it stay, a prefix of what the run would
\* print without the error.
C5_ReadFailureAborts ==
    (Resolved /\ \E k \in 1..Len(files) : CannotRead(files[k])) =>
        /\ fidx <= FirstUnreadable
        /\ pc = "lines" => fidx < FirstUnreadable
        /\ pc = "exit" =>
             /\ exit_code # ExitOk
             /\ fidx = FirstUnreadable
             /\ out = ErrorFreeOutput(FirstUnreadable - 1)
             /\ IsPrefix(out, ErrorFreeOutput(Len(files)))

\* a run whose second file could not be read has ended with the lines of the
\* first file printed
C5_Witness ==
    /\ pc = "exit"
    /\ Resolved
    /\ files = << PathF1, PathF2 >>
    /\ fidx = 2
    /\ Len(out) >= 2
    /\ exit_code = ExitError

\* C6: a supplied directory without recursive is not fatal: it adds no file
\* to the resolved list, writes exactly one diagnostic to the error stream,
\* resolution goes on with the remaining paths, and the run exits 0 when no
\* other path or file fails, also when the resolved list is empty.
C6_DirectoryWithoutRecursive ==
    [][ /\ (ParsingPath /\ IsDirectory(config.filenames[pidx])
              /\ ~config.recursive_search) =>
             /\ files' = files
             /\ errs' = Append(errs, <<"is a directory", config.filenames[pidx]>>)
             /\ pc' = "parse_filenames"
             /\ pidx' = pidx + 1
             /\ out' = out
        /\ (Searching' /\ pc' = "exit" /\ ~config.recursive_search
              /\ \A i \in 1..Len(config.filenames) :
                    /\ ~CannotStat(config.filenames[i])
                    /\ \A k \in 1..Len(FilesOfPath(config.filenames[i])) :
                          ~CannotRead(FilesOfPath(config.filenames[i])[k])) =>
             /\ exit_code' = ExitOk
             /\ Len(errs') = Cardinality({ i \in 1..Len(config.filenames) :
                                          IsDirectory(config.filenames[i]) })
      ]_vars

\* a run given nothing but a directory has ended with exit 0, no file
\* resolved, nothing printed and one diagnostic
C6_Witness ==
    /\ pc = "exit"
    /\ Searching
    /\ config.filenames = << PathD >>
    /\ ~config.recursive_search
    /\ files = <<>>
    /\ out = <<>>
    /\ errs = << <<"is a directory", PathD>> >>
    /\ exit_code = ExitOk

IsLiteral(p) == ~IsDirectory(p) /\ ~HasWildcard(p)

\* C7: a supplied path that holds the wildcard '*' is expanded by glob
\* matching against the file system, each match becoming one file entry, and
\* a wildcard path without a match gives no file and is no error: the
\* resolver does not fail at such a path, and the list it returns holds the
\* matches of each.
C7_WildcardExpanded ==
    /\ ResolverFailed => ~HasWildcard(config.filenames[pidx])
    /\ Resolved => files = FilesOfPaths(Len(config.filenames))

\* C8, as stated: a supplied path that is neither a directory nor a wildcard
\* is appended as it is without an existence check, so the resolver succeeds
\* on a missing literal file and the failure comes as a read error in the
\* scanning stage.
C8_LiteralNeverFatalInResolver ==
    /\ ResolverFailed => ~IsLiteral(config.filenames[pidx])
    /\ Resolved => files = FilesOfPaths(Len(config.filenames))

\* C8, amended: a supplied path that is neither a directory nor a wildcard
\* is statted by the resolver.  If it cannot be statted the resolver fails,
\* before any file is read, with a non-zero exit and nothing printed.  If it
\* can, it is appended as it is with no check that it can be read, so a file
\* that exists and cannot be read fails in the scanning stage only, after the
\* files before it were scanned and their matches printed.
C8_LiteralStattedNotRead ==
    [][ /\ (ParsingPath /\ IsLiteral(config.filenames[pidx])) =>
             IF CannotStat(config.filenames[pidx])
             THEN /\ pc' = "exit"
                  /\ exit_code' = ExitError
                  /\ out = <<>> /\ out' = <<>>
                  /\ files' = files
             ELSE /\ files' = Append(files, config.filenames[pidx])
                  /\ pc' = "parse_filenames"
                  /\ pidx' = pidx + 1
                  /\ errs' = errs
        /\ (Resolved /\ pc = "files" /\ pc' = "exit" /\ exit_code' # ExitOk) =>
             /\ CannotRead(files[fidx])
             /\ ~CannotStat(files[fidx])
             /\ out' = ErrorFreeOutput(fidx - 1)
      ]_vars

\* a run given a readable file and then a literal file that exists and cannot
\* be read has printed the lines of the first and failed at the second
C8_Witness ==
    /\ pc = "exit"
    /\ Searching
    /\ config.filenames = << PathF1, PathF2 >>
    /\ files = << PathF1, PathF2 >>
    /\ fidx = 2
    /\ out # <<>>
    /\ exit_code = ExitError
    /\ config.print_line_no

\* the arguments after the program name
Arguments == SubSeq(args, 2, Len(args))
IsFlag(t) == t \in { <<"-", "i">>, <<"-", "n">>, <<"-", "v">>, <<"-", "r">>,
                     <<"-", "f">>, <<"-", "c">>, <<"-", "h">>,
                     <<"-", "-", "h", "e", "l", "p">> }
Given(flag) == \E i \in 1..Len(Arguments) : Arguments[i] = flag
HelpGiven == Given(<<"-", "h">>) \/ Given(<<"-", "-", "h", "e", "l", "p">>)
Positional == SelectSeq(Arguments, LAMBDA t : ~IsFlag(t))

\* C9: argument parsing does not depend on where the flags stand: with -h or
\* --help anywhere the run prints the usage, resolves no path, reads no file
\* and exits 0 whatever the other arguments; else with less than a pattern
\* and a path left after the flags the run ends in an argument error with a
\* non-zero exit and no search; else the first argument that is no flag is
\* the pattern and the other ones, in order, are the paths.
C9_ArgumentParsing ==
    pc # "main" =>
      IF HelpGiven
      THEN /\ config.print_usage
           /\ pc \in { "run", "exit" }
           /\ files = <<>> /\ lines = <<>> /\ errs = <<>>
           /\ pc = "exit" => (exit_code = ExitOk /\ out = << USAGE_INFO >>)
      ELSE IF Len(Positional) < 2
      THEN /\ pc = "exit"
           /\ exit_code # ExitOk
           /\ out = <<>> /\ files = <<>> /\ lines = <<>>
      ELSE /\ config.search_string = Positional[1]
           /\ config.filenames = SubSeq(Positional, 2, Len(Positional))
           /\ ~config.print_usage
           /\ config.is_case_insensitive = Given(<<"-", "i">>)
           /\ config.print_line_no = Given(<<"-", "n">>)
           /\ config.invert_match = Given(<<"-", "v">>)
           /\ config.recursive_search = Given(<<"-", "r">>)
           /\ config.print_filenames = Given(<<"-", "f">>)
           /\ config.coloured_output = Given(<<"-", "c">>)
           /\ pc = "run" => out = <<>>

\* a run given a pattern, a path and then the help flag has printed the
\* usage and ended
C9_Witness ==
    /\ pc = "exit"
    /\ Len(args) = 4
    /\ args[2] = <<"a">>
    /\ args[3] = PathF1
    /\ args[4] \in HelpFlags
    /\ out = << USAGE_INFO >>
    /\ exit_code = ExitOk
====
